---- MODULE Spec2Model ----
(***************************************************************************)
(* AccountsStakingPayoutsService (substrate-api-sidecar): the payouts of   *)
(* one stash address over the eras [startEra, era], modelled as a state    *)
(* machine.  One call of fetchAccountStakingPayout runs from "start" to    *)
(* "done" or "failed"; the chain queries it awaits complete one at a time, *)
(* in any order.  The chain state read through historicApi is fixed for    *)
(* the whole behaviour (one historical block).                             *)
(***************************************************************************)
EXTENDS Integers, Sequences, FiniteSets, TLC

VARIABLES
    req,          \* the arguments of fetchAccountStakingPayout and the api's shape
    chain,        \* the storage read through historicApi (immutable)
    pc,           \* position of the call: start, legacyLoop, general, commissions, done, failed
    startEra,     \* const startEra (line 136)
    loopEra,      \* e of the for loop of fetchAllErasGeneral while it awaits (legacy branch)
    block,        \* let block (line 199)
    allDeriveQuerys, \* line 198: the per-era promises, in the order they were pushed
    allErasGeneral,  \* the array Promise.all(allDeriveQuerys) resolves to, slot by slot
    tasks,        \* the fetchCommissionAndLedger calls in flight, by era and validator position
    allErasCommissions, \* the arrays the Promise.all of lines 287 and 290 resolve to
    validatorLedgerCache, \* line 272
    cacheWrites,  \* number of assignments to validatorLedgerCache[id] by this call, by id
    erasPayouts,  \* the erasPayouts of the returned object
    error,        \* the rejection of the call, if any
    queries,      \* number of chain queries issued by this call, by kind
    outOfOrder,   \* some promise of this call settled before one pushed earlier than it
    calls,        \* number of calls of fetchAccountStakingPayout started so far
    previous      \* what the earlier calls returned, in order

vars == <<req, chain, pc, startEra, loopEra, block, allDeriveQuerys, allErasGeneral, tasks,
          allErasCommissions, validatorLedgerCache, cacheWrites, erasPayouts, error,
          queries, outOfOrder, calls, previous>>

(***************************************************************************)
(* Bounds of the model.                                                    *)
(***************************************************************************)
MaxEra == 2      \* requested eras are 0..MaxEra (and a few around era 518)
MaxDepth == 2    \* requested depths are 1..MaxDepth
MaxCalls == 2    \* calls of fetchAccountStakingPayout in one behaviour

(***************************************************************************)
(* Constants of the program.                                               *)
(***************************************************************************)
DefaultHistoryDepth == 84
LegacyEraCutoff == 518
SelfValidatorIndex == 9999

(***************************************************************************)
(* Values.  Option<T> is [isSome, value]; a field that may be missing on   *)
(* a decoded struct is [present, ...].                                     *)
(***************************************************************************)
Some(x) == [isSome |-> TRUE, value |-> x]
NoneOf(dflt) == [isSome |-> FALSE, value |-> dflt]

Max(a, b) == IF a >= b THEN a ELSE b

\* Array.prototype.indexOf / Vec.indexOf: 0-based position of the first equal element, or -1
RECURSIVE IndexFrom(_, _, _)
IndexFrom(vec, x, i) ==
    IF i > Len(vec) THEN -1
    ELSE IF vec[i] = x THEN i - 1
    ELSE IndexFrom(vec, x, i + 1)

IndexOf(vec, x) == IndexFrom(vec, x, 1)

(***************************************************************************)
(* deriveEraExposure.mapStakers (lines 461-479)                            *)
(***************************************************************************)
RECURSIVE MapOthers(_, _, _, _)
MapOthers(nominators, validatorId, others, i) ==
    IF i > Len(others) THEN nominators
    ELSE LET nominatorId == others[i].who
             before == IF nominatorId \in DOMAIN nominators
                       THEN nominators[nominatorId] ELSE << >>
             entry == [validatorId |-> validatorId, validatorIndex |-> i - 1]
         IN  MapOthers([n \in DOMAIN nominators \cup {nominatorId} |->
                           IF n = nominatorId THEN Append(before, entry)
                           ELSE nominators[n]],
                       validatorId, others, i + 1)

RECURSIVE MapStakersFrom(_, _, _)
MapStakersFrom(acc, stakers, k) ==
    IF k > Len(stakers) THEN acc
    ELSE LET validatorId == stakers[k].validatorId
             exposure == stakers[k].exposure
         IN  MapStakersFrom(
                 [acc EXCEPT
                     !.validators = [v \in DOMAIN acc.validators \cup {validatorId} |->
                                        IF v = validatorId THEN exposure
                                        ELSE acc.validators[v]],
                     !.nominators = MapOthers(acc.nominators, validatorId,
                                              exposure.others, 1)],
                 stakers, k + 1)

mapStakers(era, stakers) ==
    MapStakersFrom([era |-> era, nominators |-> << >>, validators |-> << >>], stakers, 1)

(***************************************************************************)
(* deriveNominatedExposures (lines 536-551).  The declared result is       *)
(* DeriveEraExposureNominating[] | undefined: [defined, list].             *)
(***************************************************************************)
deriveNominatedExposures(address, deriveEraExposure) ==
    LET nominated == IF address \in DOMAIN deriveEraExposure.nominators
                     THEN deriveEraExposure.nominators[address] ELSE << >>
    IN  [defined |-> TRUE,
         list |-> IF address \in DOMAIN deriveEraExposure.validators
                  THEN Append(nominated, [validatorId |-> address,
                                          validatorIndex |-> SelfValidatorIndex])
                  ELSE nominated]

(***************************************************************************)
(* extractTotalValidatorRewardPoints (lines 492-501): [defined, value]     *)
(***************************************************************************)
RECURSIVE PointsFrom(_, _, _)
PointsFrom(individual, validatorId, i) ==
    IF i > Len(individual) THEN [defined |-> FALSE, value |-> 0]
    ELSE IF individual[i].id = validatorId
         THEN [defined |-> TRUE, value |-> individual[i].points]
         ELSE PointsFrom(individual, validatorId, i + 1)

extractTotalValidatorRewardPoints(eraRewardPoints, validatorId) ==
    PointsFrom(eraRewardPoints.individual, validatorId, 1)

(***************************************************************************)
(* extractExposure (lines 511-527)                                         *)
(***************************************************************************)
RECURSIVE FindWho(_, _, _)
FindWho(others, address, i) ==
    IF i > Len(others) THEN [defined |-> FALSE, value |-> 0]
    ELSE IF others[i].who = address
         THEN [defined |-> TRUE, value |-> others[i].value]
         ELSE FindWho(others, address, i + 1)

extractExposure(address, validatorId, deriveEraExposure) ==
    LET exposure == deriveEraExposure.validators[validatorId]
    IN  [totalExposure |-> exposure.total,
         nominatorExposure |->
             IF address = validatorId
             THEN [defined |-> TRUE, value |-> deriveEraExposure.validators[address].own]
             ELSE FindWho(exposure.others, address, 1)]

\* the claimed check reading claimedRewards before legacyClaimedRewards
claimIndexOfEraModernFirst(validatorLedger, eraIndex) ==
    IF validatorLedger.claimedRewards.present
    THEN [resolved |-> TRUE,
          indexOfEra |-> IndexOf(validatorLedger.claimedRewards.vec, eraIndex)]
    ELSE IF validatorLedger.legacyClaimedRewards.present
    THEN [resolved |-> TRUE,
          indexOfEra |-> IndexOf(validatorLedger.legacyClaimedRewards.vec, eraIndex)]
    ELSE IF validatorLedger.lastReward.present
    THEN IF validatorLedger.lastReward.opt.isSome
         THEN [resolved |-> TRUE, indexOfEra |-> validatorLedger.lastReward.opt.value]
         ELSE [resolved |-> FALSE, indexOfEra |-> -1]
    ELSE [resolved |-> FALSE, indexOfEra |-> -1]

(***************************************************************************)
(* The claimed check of deriveEraPayouts (lines 349-363): which field of   *)
(* the ledger is read, and the indexOfEra it gives.  [resolved = FALSE] is *)
(* the `continue` of lines 359 and 362.                                    *)
(***************************************************************************)
claimIndexOfEra(validatorLedger, eraIndex) ==
    IF validatorLedger.legacyClaimedRewards.present
    THEN [resolved |-> TRUE,
          indexOfEra |-> IndexOf(validatorLedger.legacyClaimedRewards.vec, eraIndex)]
    ELSE IF validatorLedger.claimedRewards.present
    THEN [resolved |-> TRUE,
          indexOfEra |-> IndexOf(validatorLedger.claimedRewards.vec, eraIndex)]
    ELSE IF validatorLedger.lastReward.present
    THEN IF validatorLedger.lastReward.opt.isSome
         THEN [resolved |-> TRUE, indexOfEra |-> validatorLedger.lastReward.opt.value]
         ELSE [resolved |-> FALSE, indexOfEra |-> -1]
    ELSE [resolved |-> FALSE, indexOfEra |-> -1]

\* line 364 (indexOfEra is always an integer here)
isClaimed(indexOfEra) == indexOfEra # -1

(***************************************************************************)
(* CalcPayout.from_params(...).calc_payout(...) of @substrate/calc (lines  *)
(* 319, 369-375): an external primitive, kept as the application to its    *)
(* arguments.                                                              *)
(***************************************************************************)
calc_payout(eraPoints, eraPayout, validatorPoints, commission, exposure, total, isValidator) ==
    [totalEraRewardPoints |-> eraPoints,
     totalEraPayout |-> eraPayout,
     totalValidatorRewardPoints |-> validatorPoints,
     validatorCommission |-> commission,
     nominatorExposure |-> exposure,
     totalExposure |-> total,
     isValidator |-> isValidator]

(***************************************************************************)
(* deriveEraPayouts (lines 300-394)                                        *)
(***************************************************************************)
NoNominationsMessage(address, eraIndex) ==
    [kind |-> "message",
     message |-> [subject |-> address, text |-> "has no nominations for the era",
                  era |-> eraIndex]]

NoErasValidatorRewardMessage(eraIndex) ==
    [kind |-> "message",
     message |-> [subject |-> "", text |-> "No ErasValidatorReward for the era",
                  era |-> eraIndex]]

\* the test of line 326 without its `=== 0` half
hasUndefinedRewardPoints(totalValidatorRewardPoints) ==
    ~totalValidatorRewardPoints.defined

\* the test of line 365 never skipping
neverSkipsClaimed(unclaimedOnly, claimed) == FALSE

\* line 326: nothing to do if there are no reward points for the validator
hasNoRewardPoints(totalValidatorRewardPoints) ==
    ~totalValidatorRewardPoints.defined \/ totalValidatorRewardPoints.value = 0

\* line 365
skipsClaimed(unclaimedOnly, claimed) == unclaimedOnly /\ claimed

\* one iteration of the for loop of lines 323-386: the payouts list after it
PayoutStep(address, unclaimedOnly, eraData, entry, payouts) ==
    LET validatorId == entry.validatorId
        totalValidatorRewardPoints ==
            extractTotalValidatorRewardPoints(eraData.eraRewardPoints, validatorId)
        exposure == extractExposure(address, validatorId, eraData.deriveEraExposure)
        claim == claimIndexOfEra(entry.validatorLedger.ledger, eraData.eraIndex)
        claimed == isClaimed(claim.indexOfEra)
    IN  IF hasNoRewardPoints(totalValidatorRewardPoints) THEN payouts
        ELSE IF ~exposure.nominatorExposure.defined THEN payouts
        ELSE IF ~entry.validatorLedger.defined THEN payouts
        ELSE IF ~claim.resolved THEN payouts
        ELSE IF skipsClaimed(unclaimedOnly, claimed) THEN payouts
        ELSE Append(payouts,
                 [validatorId |-> validatorId,
                  nominatorStakingPayout |->
                      calc_payout(eraData.eraRewardPoints.total,
                                  eraData.erasValidatorRewardOption.value,
                                  totalValidatorRewardPoints.value,
                                  entry.commission,
                                  exposure.nominatorExposure.value,
                                  exposure.totalExposure,
                                  address = validatorId),
                  claimed |-> claimed,
                  totalValidatorRewardPoints |-> totalValidatorRewardPoints.value,
                  validatorCommission |-> entry.commission,
                  totalValidatorExposure |-> exposure.totalExposure,
                  nominatorExposure |-> exposure.nominatorExposure.value])

RECURSIVE PayoutsFrom(_, _, _, _, _)
PayoutsFrom(address, unclaimedOnly, eraData, i, payouts) ==
    IF i > Len(eraData.exposuresWithCommission.list) THEN payouts
    ELSE PayoutsFrom(address, unclaimedOnly, eraData, i + 1,
                     PayoutStep(address, unclaimedOnly, eraData,
                                eraData.exposuresWithCommission.list[i], payouts))

deriveEraPayouts(address, unclaimedOnly, eraData) ==
    IF ~eraData.exposuresWithCommission.defined
    THEN NoNominationsMessage(address, eraData.eraIndex)
    ELSE IF ~eraData.erasValidatorRewardOption.isSome
    THEN NoErasValidatorRewardMessage(eraData.eraIndex)
    ELSE [kind |-> "payouts",
          era |-> eraData.eraIndex,
          totalEraRewardPoints |-> eraData.eraRewardPoints.total,
          totalEraPayout |-> eraData.erasValidatorRewardOption.value,
          payouts |-> PayoutsFrom(address, unclaimedOnly, eraData, 1, << >>)]

(***************************************************************************)
(* The chain state and the requests.                                       *)
(*                                                                         *)
(* Accounts: the stash `a` whose payouts are asked for, the validators v1  *)
(* and v2, another nominator n.  `a` may itself be a validator of an era.  *)
(***************************************************************************)
Address == "a"
Validators == {"v1", "v2", "a"}
ControllerOf == [v \in Validators |->
                    IF v = "v1" THEN "c1" ELSE IF v = "v2" THEN "c2" ELSE "ca"]
Controllers == {ControllerOf[v] : v \in Validators}

\* eras the chain holds data for: the low eras and the eras just below the cutoff of line 113
EraDom == (0 .. MaxEra) \cup ((LegacyEraCutoff - MaxDepth) .. (LegacyEraCutoff - 1))

RECURSIVE SumValues(_, _)
SumValues(others, i) ==
    IF i > Len(others) THEN 0 ELSE others[i].value + SumValues(others, i + 1)

\* a PalletStakingExposure with the given own stake and nominators
Exposure(own, whos) ==
    LET others == [k \in 1 .. Len(whos) |-> [who |-> whos[k], value |-> 20 * k]]
    IN  [total |-> own + SumValues(others, 1), own |-> own, others |-> others]

Staker(validatorId, whos) ==
    [validatorId |-> validatorId, exposure |-> Exposure(10, whos)]

\* erasStakersClipped.entries(era): the shapes of one era's exposure the model covers
NoStakers == << >>
OtherNominatorOnly == <<Staker("v1", <<"n">>)>>
NominatesOne == <<Staker("v1", <<"n", "a">>)>>
NominatesTwo == <<Staker("v1", <<"a">>), Staker("v2", <<"a", "n">>)>>
SelfValidator == <<Staker("a", <<"n">>)>>
SelfInOwnOthers == <<Staker("a", <<"a">>)>>
NominatesAndValidates == <<Staker("v1", <<"a">>), Staker("a", << >>)>>

StakerChoices == {NoStakers, OtherNominatorOnly, NominatesOne, NominatesTwo,
                  SelfValidator, SelfInOwnOthers, NominatesAndValidates}

\* erasRewardPoints(era): every validator of the era earned points ("all"), the first
\* earned none ("firstZero"), or the first has no entry ("firstAbsent")
PointsOf(e, k, how) == IF k = 1 /\ how = "firstZero" THEN 0 ELSE 10 * k + e

RECURSIVE SumPoints(_, _)
SumPoints(individual, i) ==
    IF i > Len(individual) THEN 0 ELSE individual[i].points + SumPoints(individual, i + 1)

RewardPoints(e, stakers, how) ==
    LET every == [k \in 1 .. Len(stakers) |->
                     [id |-> stakers[k].validatorId, points |-> PointsOf(e, k, how)]]
        individual == IF how = "firstAbsent" /\ Len(every) > 0 THEN Tail(every) ELSE every
    IN  [total |-> SumPoints(individual, 1), individual |-> individual]

PointsChoices == {"all", "firstZero", "firstAbsent"}

\* erasValidatorPrefs(era, validatorId).commission, in Perbill parts
CommissionOf(e, v) == 1000 * (e + 1) + (IF v = "v1" THEN 1 ELSE IF v = "v2" THEN 2 ELSE 3)

\* a decoded staking ledger: which of the three claim fields it has
Ledger(legacy, claimed, last) ==
    [legacyClaimedRewards |-> legacy, claimedRewards |-> claimed, lastReward |-> last]
NoVec == [present |-> FALSE, vec |-> << >>]
Vec(v) == [present |-> TRUE, vec |-> v]
NoLastReward == [present |-> FALSE, opt |-> NoneOf(0)]
LastReward(opt) == [present |-> TRUE, opt |-> opt]

NoLedger == Ledger(NoVec, NoVec, NoLastReward)
DefaultLedger == Ledger(NoVec, Vec(<<0>>), NoLastReward)

ClaimVecs == {NoVec, Vec(<< >>), Vec(<<MaxEra>>), Vec(<<MaxEra - 1>>),
              Vec(<<MaxEra - 1, MaxEra>>)}
LastRewards == {NoLastReward, LastReward(NoneOf(0)), LastReward(Some(MaxEra)),
                LastReward(Some(MaxEra - 1))}
LedgerChoices == {Ledger(l, c, r) : l \in ClaimVecs, c \in ClaimVecs, r \in LastRewards}

\* the era data of one era, and a chain made of per-era data and per-validator ledgers
EraData(e, stakers, how, reward) ==
    [stakers |-> stakers,
     points |-> RewardPoints(e, stakers, how),
     reward |-> IF reward THEN Some(1000 + e) ELSE NoneOf(0)]

DefaultEra(e) == EraData(e, NominatesOne, "all", TRUE)

HistoryDepthAt(where, value) ==
    [consts |-> [present |-> where = "consts", value |-> value],
     query |-> [present |-> where = "query", value |-> value]]

Chain(historyDepth, modern, eras, bonded, ledger) ==
    [constsHistoryDepth |-> historyDepth.consts,
     queryHistoryDepth |-> historyDepth.query,
     hasErasRewardPoints |-> modern,
     sessionsPerEra |-> 2,
     epochDuration |-> 3,
     erasStakersClipped |-> [e \in EraDom |-> eras[e].stakers],
     erasRewardPoints |-> [e \in EraDom |-> eras[e].points],
     erasValidatorReward |-> [e \in EraDom |-> eras[e].reward],
     erasValidatorPrefs |-> [e \in EraDom |-> [v \in Validators |-> CommissionOf(e, v)]],
     bonded |-> bonded,
     ledger |-> ledger]

AllBonded == [v \in Validators |-> Some(ControllerOf[v])]
AllLedgers == [c \in Controllers |-> Some(DefaultLedger)]

Request(depth, era, unclaimedOnly, currentEra) ==
    [address |-> Address, depth |-> depth, era |-> era, unclaimedOnly |-> unclaimedOnly,
     currentEra |-> currentEra, height |-> 100]

\* requests against a plain chain: every depth, era, current era and history depth
RangeInputs ==
    {[req |-> Request(depth, era, FALSE, currentEra),
      chain |-> Chain(HistoryDepthAt(where, hd), modern, [e \in EraDom |-> DefaultEra(e)],
                      AllBonded, AllLedgers)] :
        depth \in 1 .. MaxDepth,
        era \in (0 .. MaxEra) \cup {LegacyEraCutoff - 1},
        currentEra \in {MaxEra, MaxEra + 1, LegacyEraCutoff},
        where \in {"consts", "query", "nowhere"},
        hd \in 0 .. (MaxDepth + 1),
        modern \in BOOLEAN}

\* requests ending at era MaxEra whose last era has every shape of exposure, points
\* and payout pool, the eras before it being plain or empty
EraInputs ==
    {[req |-> Request(depth, MaxEra, unclaimedOnly, MaxEra),
      chain |-> Chain(HistoryDepthAt("nowhere", 0), TRUE,
                      [e \in EraDom |->
                          IF e = MaxEra THEN EraData(e, stakers, how, reward)
                          ELSE IF earlier THEN DefaultEra(e)
                          ELSE EraData(e, NoStakers, "all", TRUE)],
                      AllBonded, AllLedgers)] :
        depth \in 1 .. MaxDepth, unclaimedOnly \in BOOLEAN,
        stakers \in StakerChoices, how \in PointsChoices, reward \in BOOLEAN,
        earlier \in BOOLEAN}

\* v1 has no controller, or a controller without ledger, or a ledger of every shape
LedgerCases ==
    {[bonded |-> NoneOf("c1"), ledger |-> Some(DefaultLedger)],
     [bonded |-> Some("c1"), ledger |-> NoneOf(NoLedger)]}
    \cup {[bonded |-> Some("c1"), ledger |-> Some(l)] : l \in LedgerChoices}

\* requests ending at era MaxEra for a nominator of v1, over the ledger cases of v1
LedgerInputs ==
    {[req |-> Request(depth, MaxEra, unclaimedOnly, MaxEra),
      chain |-> Chain(HistoryDepthAt("nowhere", 0), TRUE, [e \in EraDom |-> DefaultEra(e)],
                      [AllBonded EXCEPT !["v1"] = case.bonded],
                      [AllLedgers EXCEPT !["c1"] = case.ledger])] :
        depth \in 1 .. MaxDepth, unclaimedOnly \in BOOLEAN, case \in LedgerCases}

Inputs == RangeInputs \cup EraInputs \cup LedgerInputs

(***************************************************************************)
(* fetchAccountStakingPayout, lines 99-136: history depth and range check  *)
(***************************************************************************)
resolveHistoryDepth(c, currentEra) ==
    IF c.constsHistoryDepth.present THEN c.constsHistoryDepth.value
    ELSE IF c.queryHistoryDepth.present THEN c.queryHistoryDepth.value
    ELSE IF currentEra < LegacyEraCutoff THEN 0
    ELSE DefaultHistoryDepth

\* the range check without the exemption of the era test for historyDepth = 0
rangeErrorNoExemption(historyDepth, depth, era, currentEra) ==
    IF historyDepth # 0 /\ depth > historyDepth
    THEN "Must specify a depth less than history_depth"
    ELSE IF era - (depth - 1) < currentEra - historyDepth
    THEN "Must specify era and depth such that era - (depth - 1) is less than or equal to current_era - history_depth."
    ELSE ""

\* the BadRequest thrown by lines 118-128, "" when none is
rangeError(historyDepth, depth, era, currentEra) ==
    IF historyDepth # 0 /\ depth > historyDepth
    THEN "Must specify a depth less than history_depth"
    ELSE IF era - (depth - 1) < currentEra - historyDepth /\ historyDepth # 0
    THEN "Must specify era and depth such that era - (depth - 1) is less than or equal to current_era - history_depth."
    ELSE ""

computeStartEra(era, depth) == Max(0, era - (depth - 1))

NoError == [name |-> "", message |-> "", wrapped |-> FALSE, address |-> ""]

\* the rejection of a chain query (network, decoding): an Error that is no http error
UpstreamError == [name |-> "Error", message |-> "chain query failed", wrapped |-> FALSE,
                  address |-> ""]

\* AbstractService.createHttpErrorForAddr (called at line 149): the error, with the address
createHttpErrorForAddr(address, err) == [err EXCEPT !.wrapped = TRUE, !.address = address]
NoQueries == [eraGeneral |-> 0, legacyPoints |-> 0,
              prefs |-> [v \in Validators |-> 0],
              bonded |-> [v \in Validators |-> 0],
              ledger |-> [v \in Validators |-> 0]]
NoWrites == [v \in Validators |-> 0]

\* the state of a call that has not run yet
Fresh ==
    /\ pc = "start"
    /\ startEra = 0
    /\ loopEra = 0
    /\ block = 0
    /\ allDeriveQuerys = << >>
    /\ allErasGeneral = << >>
    /\ tasks = << >>
    /\ allErasCommissions = << >>
    /\ validatorLedgerCache = << >>
    /\ cacheWrites = NoWrites
    /\ erasPayouts = << >>
    /\ error = NoError
    /\ queries = NoQueries
    /\ outOfOrder = FALSE

Init ==
    /\ \E in \in Inputs : req = in.req /\ chain = in.chain
    /\ Fresh
    /\ calls = 1
    /\ previous = << >>

historyDepth == resolveHistoryDepth(chain, req.currentEra)
Rejected == rangeError(historyDepth, req.depth, req.era, req.currentEra) # ""

\* lines 118-128: the range is refused
RejectRange ==
    /\ pc = "start"
    /\ Rejected
    /\ pc' = "failed"
    /\ error' = [name |-> "BadRequest",
                 message |-> rangeError(historyDepth, req.depth, req.era, req.currentEra),
                 wrapped |-> FALSE, address |-> ""]
    /\ UNCHANGED <<req, chain, startEra, loopEra, block, allDeriveQuerys, allErasGeneral,
                   tasks, allErasCommissions, validatorLedgerCache, cacheWrites,
                   erasPayouts, queries, calls, outOfOrder, previous>>

(***************************************************************************)
(* Promise.all: the value of the i-th promise goes to the i-th slot of the *)
(* result, whenever it settles.                                            *)
(***************************************************************************)
Unsettled(n) == [i \in 1 .. n |-> [settled |-> FALSE]]
AllSettled(results) == \A i \in 1 .. Len(results) : results[i].settled

CompletionOrderIndex(i, results) ==
    1 + Cardinality({k \in 1 .. Len(results) : results[k].settled})

PromiseAllIndex(i, results) == i

Settle(results, i, value) ==
    [results EXCEPT ![PromiseAllIndex(i, results)] = [settled |-> TRUE, value |-> value]]

(***************************************************************************)
(* fetchAllErasGeneral (lines 192-245)                                     *)
(***************************************************************************)
\* lines 200-213, erasRewardPoints being there: every era's tuple is asked for at once
FetchAllErasGeneral ==
    /\ pc = "start"
    /\ ~Rejected
    /\ chain.hasErasRewardPoints
    /\ LET first == computeStartEra(req.era, req.depth)
           n == req.era - first + 1
       IN  /\ startEra' = first
           /\ block' = req.height
           /\ allDeriveQuerys' = [i \in 1 .. n |-> [era |-> first + i - 1, state |-> "pending"]]
           /\ allErasGeneral' = Unsettled(n)
           /\ queries' = [queries EXCEPT !.eraGeneral = @ + n]
    /\ pc' = "general"
    /\ UNCHANGED <<req, chain, loopEra, tasks, allErasCommissions, validatorLedgerCache,
                   cacheWrites, erasPayouts, error, calls, outOfOrder, previous>>

\* the tuple of lines 207-211 for era e
EraGeneralTuple(e) ==
    [kind |-> "modern",
     deriveEraExposure |-> mapStakers(e, chain.erasStakersClipped[e]),
     eraRewardPoints |-> chain.erasRewardPoints[e],
     erasValidatorRewardOption |-> chain.erasValidatorReward[e]]

\* the three queries of one era have answered: its tuple resolves
EraGeneralDone(i) ==
    /\ pc = "general"
    /\ allDeriveQuerys[i].state = "pending"
    /\ allDeriveQuerys' = [allDeriveQuerys EXCEPT ![i].state = "resolved"]
    /\ allErasGeneral' = Settle(allErasGeneral, i, EraGeneralTuple(allDeriveQuerys[i].era))
    /\ UNCHANGED <<req, chain, pc, startEra, loopEra, block, tasks, allErasCommissions,
                   validatorLedgerCache, cacheWrites, erasPayouts, error, queries, calls,
                   previous>>
    /\ outOfOrder' = (outOfOrder \/ \E k \in 1 .. (i - 1) : allDeriveQuerys[k].state = "pending")

\* lines 199-200, erasRewardPoints not being there: the loop is entered
EnterLegacyLoop ==
    /\ pc = "start"
    /\ ~Rejected
    /\ ~chain.hasErasRewardPoints
    /\ startEra' = computeStartEra(req.era, req.depth)
    /\ loopEra' = computeStartEra(req.era, req.depth)
    /\ block' = req.height
    /\ pc' = "legacyLoop"
    /\ UNCHANGED <<req, chain, allDeriveQuerys, allErasGeneral, tasks, allErasCommissions,
                   validatorLedgerCache, cacheWrites, erasPayouts, error, queries, calls,
                   outOfOrder, previous>>

\* lines 215-239: one iteration, which awaits its own points before the next starts
LegacyEraStep ==
    /\ pc = "legacyLoop"
    /\ loopEra <= req.era
    /\ LET eraDurationInBlocks == chain.sessionsPerEra * chain.epochDuration
       IN  /\ block' = block - eraDurationInBlocks
           /\ allDeriveQuerys' = Append(allDeriveQuerys, [era |-> loopEra, state |-> "resolved"])
           /\ allErasGeneral' = Append(allErasGeneral,
                                  [settled |-> TRUE,
                                   value |-> [kind |-> "legacy",
                                              currentEraPointsEarned |-> [block |-> block]]])
    /\ queries' = [queries EXCEPT !.legacyPoints = @ + 1]
    /\ loopEra' = loopEra + 1
    /\ pc' = IF loopEra = req.era THEN "general" ELSE "legacyLoop"
    /\ UNCHANGED <<req, chain, startEra, tasks, allErasCommissions, validatorLedgerCache,
                   cacheWrites, erasPayouts, error, calls, outOfOrder, previous>>

(***************************************************************************)
(* fetchAllErasCommissions (lines 265-291) and fetchCommissionAndLedger    *)
(* (lines 405-445)                                                         *)
(***************************************************************************)
NoValidatorLedger == [defined |-> FALSE, ledger |-> NoLedger]

\* fetchCommissionAndLedger up to its first await: the cache is looked at when the call
\* is made (line 413), and the queries of line 415 or of lines 420-421 are sent
StartFetch(validatorId, era, cache) ==
    IF validatorId \in DOMAIN cache
    THEN [validatorId |-> validatorId, era |-> era, pc |-> "prefs", commission |-> 0,
          controller |-> "",
          validatorLedger |-> [defined |-> TRUE, ledger |-> cache[validatorId]]]
    ELSE [validatorId |-> validatorId, era |-> era, pc |-> "prefsBonded", commission |-> 0,
          controller |-> "", validatorLedger |-> NoValidatorLedger]

\* lines 274-288 for one era: one call per nominated validator, none awaited yet
EraFetches(idx, first, cache) ==
    LET nominatedExposures ==
            deriveNominatedExposures(req.address, allErasGeneral[idx].value.deriveEraExposure)
    IN  IF ~nominatedExposures.defined THEN << >>
        ELSE [j \in 1 .. Len(nominatedExposures.list) |->
                 StartFetch(nominatedExposures.list[j].validatorId, idx - 1 + first, cache)]

TaskIds(ts) == {<<i, j>> : i \in 1 .. MaxDepth, j \in 1 .. Cardinality(Validators) + 1}
               \cap {ij \in (1 .. Len(ts)) \X (1 .. Cardinality(Validators) + 1) :
                        ij[2] <= Len(ts[ij[1]])}

CountTasks(ts, v, pcs) ==
    Cardinality({ij \in TaskIds(ts) :
                    ts[ij[1]][ij[2]].validatorId = v /\ ts[ij[1]][ij[2]].pc \in pcs})

\* the await of line 139 is over: lines 142-147, every fetchCommissionAndLedger is called
FetchAllErasCommissions ==
    /\ pc = "general"
    /\ AllSettled(allErasGeneral)
    /\ \A i \in 1 .. Len(allErasGeneral) : allErasGeneral[i].value.kind = "modern"
    /\ LET issued == [idx \in 1 .. Len(allErasGeneral) |->
                         EraFetches(idx, startEra, validatorLedgerCache)]
       IN  /\ tasks' = issued
           /\ allErasCommissions' = [idx \in 1 .. Len(issued) |-> Unsettled(Len(issued[idx]))]
           /\ queries' = [queries EXCEPT
                 !.prefs = [v \in Validators |-> @[v] + CountTasks(issued, v, {"prefs", "prefsBonded"})],
                 !.bonded = [v \in Validators |-> @[v] + CountTasks(issued, v, {"prefsBonded"})]]
    /\ pc' = "commissions"
    /\ UNCHANGED <<req, chain, startEra, loopEra, block, allDeriveQuerys, allErasGeneral,
                   validatorLedgerCache, cacheWrites, erasPayouts, error, calls, outOfOrder, previous>>

\* line 147 on the tuples of the legacy branch: eraGeneral[0] is the points record, which
\* has no `nominators`, and line 540 throws before any promise exists for line 148 to catch
CommissionsTypeError ==
    /\ pc = "general"
    /\ AllSettled(allErasGeneral)
    /\ \E i \in 1 .. Len(allErasGeneral) : allErasGeneral[i].value.kind = "legacy"
    /\ pc' = "failed"
    /\ error' = [name |-> "TypeError", message |-> "Cannot read properties of undefined",
                 wrapped |-> FALSE, address |-> ""]
    /\ UNCHANGED <<req, chain, startEra, loopEra, block, allDeriveQuerys, allErasGeneral,
                   tasks, allErasCommissions, validatorLedgerCache, cacheWrites,
                   erasPayouts, queries, calls, outOfOrder, previous>>

\* a call of fetchCommissionAndLedger returns `value`
Return(i, j, task, value) ==
    /\ tasks' = [tasks EXCEPT ![i][j] = [task EXCEPT !.pc = "done"]]
    /\ allErasCommissions' =
           [allErasCommissions EXCEPT ![i] = Settle(allErasCommissions[i], j, value)]
    /\ outOfOrder' = (outOfOrder \/ \E ij \in TaskIds(tasks) :
                                       /\ ij[1] < i \/ (ij[1] = i /\ ij[2] < j)
                                       /\ tasks[ij[1]][ij[2]].pc # "done")

\* the first await of a call resolves: line 415 (cached) or lines 419-432 (not cached)
PrefsDone(i, j) ==
    /\ pc = "commissions"
    /\ i \in 1 .. Len(tasks) /\ j \in 1 .. Len(tasks[i])
    /\ tasks[i][j].pc \in {"prefs", "prefsBonded"}
    /\ LET task == tasks[i][j]
           commission == chain.erasValidatorPrefs[task.era][task.validatorId]
           validatorControllerOption == chain.bonded[task.validatorId]
       IN  IF task.pc = "prefs"
           THEN /\ Return(i, j, [task EXCEPT !.commission = commission],
                          [commission |-> commission, validatorLedger |-> task.validatorLedger])
                /\ UNCHANGED queries
           ELSE IF ~validatorControllerOption.isSome
           THEN /\ Return(i, j, [task EXCEPT !.commission = commission],
                          [commission |-> commission, validatorLedger |-> NoValidatorLedger])
                /\ UNCHANGED queries
           ELSE /\ tasks' = [tasks EXCEPT ![i][j] =
                                [task EXCEPT !.pc = "ledger", !.commission = commission,
                                             !.controller = validatorControllerOption.value]]
                /\ queries' = [queries EXCEPT !.ledger[task.validatorId] = @ + 1]
                /\ UNCHANGED <<allErasCommissions, outOfOrder>>
    /\ UNCHANGED <<req, chain, pc, startEra, loopEra, block, allDeriveQuerys, allErasGeneral,
                   validatorLedgerCache, cacheWrites, erasPayouts, error, calls, previous>>

\* the await of line 432 resolves: lines 434-444
LedgerDone(i, j) ==
    /\ pc = "commissions"
    /\ i \in 1 .. Len(tasks) /\ j \in 1 .. Len(tasks[i])
    /\ tasks[i][j].pc = "ledger"
    /\ LET task == tasks[i][j]
           validatorLedgerOption == chain.ledger[task.controller]
       IN  IF ~validatorLedgerOption.isSome
           THEN /\ Return(i, j, task, [commission |-> task.commission,
                                       validatorLedger |-> NoValidatorLedger])
                /\ UNCHANGED <<validatorLedgerCache, cacheWrites>>
           ELSE /\ validatorLedgerCache' =
                       [v \in DOMAIN validatorLedgerCache \cup {task.validatorId} |->
                           IF v = task.validatorId THEN validatorLedgerOption.value
                           ELSE validatorLedgerCache[v]]
                /\ cacheWrites' = [cacheWrites EXCEPT ![task.validatorId] = @ + 1]
                /\ Return(i, j, task,
                          [commission |-> task.commission,
                           validatorLedger |-> [defined |-> TRUE,
                                                ledger |-> validatorLedgerOption.value]])
    /\ UNCHANGED <<req, chain, pc, startEra, loopEra, block, allDeriveQuerys, allErasGeneral,
                   erasPayouts, error, queries, calls, previous>>

(***************************************************************************)
(* Chain queries that reject.  Promise.all rejects with the first          *)
(* rejection, and so does the await on it; nothing is sent again.          *)
(***************************************************************************)
\* a query of one era's tuple rejects: the await of line 139 throws, nothing catches it
EraGeneralFails(i) ==
    /\ pc = "general"
    /\ allDeriveQuerys[i].state = "pending"
    /\ allDeriveQuerys' = [allDeriveQuerys EXCEPT ![i].state = "rejected"]
    /\ pc' = "failed"
    /\ error' = UpstreamError
    /\ UNCHANGED <<req, chain, startEra, loopEra, block, allErasGeneral, tasks,
                   allErasCommissions, validatorLedgerCache, cacheWrites, erasPayouts,
                   queries, outOfOrder, calls, previous>>

\* an await of the legacy branch rejects (lines 220, 238): the same await of line 139 throws
LegacyQueryFails ==
    /\ pc = "legacyLoop"
    /\ loopEra <= req.era
    /\ queries' = [queries EXCEPT !.legacyPoints = @ + 1]
    /\ pc' = "failed"
    /\ error' = UpstreamError
    /\ UNCHANGED <<req, chain, startEra, loopEra, block, allDeriveQuerys, allErasGeneral,
                   tasks, allErasCommissions, validatorLedgerCache, cacheWrites,
                   erasPayouts, outOfOrder, calls, previous>>

\* a fetchCommissionAndLedger call rejects: the promise of fetchAllErasCommissions rejects
\* and the catch of lines 148-150 throws the error made by createHttpErrorForAddr
Reject(i, j) ==
    /\ tasks' = [tasks EXCEPT ![i][j].pc = "rejected"]
    /\ pc' = "failed"
    /\ error' = createHttpErrorForAddr(req.address, UpstreamError)
    /\ UNCHANGED <<req, chain, startEra, loopEra, block, allDeriveQuerys, allErasGeneral,
                   allErasCommissions, validatorLedgerCache, cacheWrites, erasPayouts,
                   queries, outOfOrder, calls, previous>>

\* the query of line 415, or one of lines 420-421, rejects
PrefsFails(i, j) ==
    /\ pc = "commissions"
    /\ i \in 1 .. Len(tasks) /\ j \in 1 .. Len(tasks[i])
    /\ tasks[i][j].pc \in {"prefs", "prefsBonded"}
    /\ Reject(i, j)

\* the query of line 432 rejects
LedgerFails(i, j) ==
    /\ pc = "commissions"
    /\ i \in 1 .. Len(tasks) /\ j \in 1 .. Len(tasks[i])
    /\ tasks[i][j].pc = "ledger"
    /\ Reject(i, j)

(***************************************************************************)
(* fetchAccountStakingPayout, lines 153-181                                *)
(***************************************************************************)
\* lines 154-175 for the era at position idx
EraDataAt(idx) ==
    LET eraGeneral == allErasGeneral[idx].value
        eraCommissions == allErasCommissions[idx]
        nominatedExposures == deriveNominatedExposures(req.address, eraGeneral.deriveEraExposure)
    IN  [deriveEraExposure |-> eraGeneral.deriveEraExposure,
         eraRewardPoints |-> eraGeneral.eraRewardPoints,
         erasValidatorRewardOption |-> eraGeneral.erasValidatorRewardOption,
         exposuresWithCommission |->
             IF nominatedExposures.defined
             THEN [defined |-> TRUE,
                   list |-> [k \in 1 .. Len(nominatedExposures.list) |->
                                [validatorId |-> nominatedExposures.list[k].validatorId,
                                 commission |-> eraCommissions[k].value.commission,
                                 validatorLedger |-> eraCommissions[k].value.validatorLedger]]]
             ELSE [defined |-> FALSE, list |-> << >>],
         eraIndex |-> idx - 1 + startEra]

\* the await of line 142 is over: the result is built and returned
Assemble ==
    /\ pc = "commissions"
    /\ \A i \in 1 .. Len(allErasCommissions) : AllSettled(allErasCommissions[i])
    /\ erasPayouts' = [idx \in 1 .. Len(allErasGeneral) |->
                          deriveEraPayouts(req.address, req.unclaimedOnly, EraDataAt(idx))]
    /\ pc' = "done"
    /\ UNCHANGED <<req, chain, startEra, loopEra, block, allDeriveQuerys, allErasGeneral,
                   tasks, allErasCommissions, validatorLedgerCache, cacheWrites, error,
                   queries, calls, outOfOrder, previous>>

\* the same request is made again, against the same block, after a call that the chain
\* answered: a new call, with its own cache
NewCall ==
    /\ pc \in {"done", "failed"}
    /\ error.name # UpstreamError.name
    /\ calls < MaxCalls
    /\ previous' = Append(previous, [pc |-> pc, erasPayouts |-> erasPayouts, error |-> error,
                                     outOfOrder |-> outOfOrder])
    /\ calls' = calls + 1
    /\ pc' = "start"
    /\ startEra' = 0
    /\ loopEra' = 0
    /\ block' = 0
    /\ allDeriveQuerys' = << >>
    /\ allErasGeneral' = << >>
    /\ tasks' = << >>
    /\ allErasCommissions' = << >>
    /\ validatorLedgerCache' = << >>
    /\ cacheWrites' = NoWrites
    /\ erasPayouts' = << >>
    /\ error' = NoError
    /\ queries' = NoQueries
    /\ outOfOrder' = FALSE
    /\ UNCHANGED <<req, chain>>

Next ==
    \/ RejectRange
    \/ FetchAllErasGeneral
    \/ \E i \in 1 .. MaxDepth : i <= Len(allDeriveQuerys) /\ EraGeneralDone(i)
    \/ EnterLegacyLoop
    \/ LegacyEraStep
    \/ FetchAllErasCommissions
    \/ CommissionsTypeError
    \/ \E i \in 1 .. MaxDepth, j \in 1 .. Cardinality(Validators) + 1 : PrefsDone(i, j)
    \/ \E i \in 1 .. MaxDepth, j \in 1 .. Cardinality(Validators) + 1 : LedgerDone(i, j)
    \/ Assemble
    \/ \E i \in 1 .. MaxDepth : i <= Len(allDeriveQuerys) /\ EraGeneralFails(i)
    \/ LegacyQueryFails
    \/ \E i \in 1 .. MaxDepth, j \in 1 .. Cardinality(Validators) + 1 : PrefsFails(i, j)
    \/ \E i \in 1 .. MaxDepth, j \in 1 .. Cardinality(Validators) + 1 : LedgerFails(i, j)
    \/ NewCall

Spec == Init /\ [][Next]_vars

(***************************************************************************)
(* What the chain holds, read directly (for the statements below).         *)
(***************************************************************************)
RequestedStartEra == Max(0, req.era - req.depth + 1)
EraAtPosition(i) == RequestedStartEra + i - 1

\* the ledger of validator v on the chain, through its controller
LedgerOnChain(v) ==
    IF chain.bonded[v].isSome /\ chain.ledger[chain.bonded[v].value].isSome
    THEN [defined |-> TRUE, ledger |-> chain.ledger[chain.bonded[v].value].value]
    ELSE NoValidatorLedger

\* the validators whose exposure of era e names `address`, and whether `address` validates
BackedValidators(e) ==
    {chain.erasStakersClipped[e][k].validatorId : k \in
        {k \in 1 .. Len(chain.erasStakersClipped[e]) :
            \E o \in 1 .. Len(chain.erasStakersClipped[e][k].exposure.others) :
                chain.erasStakersClipped[e][k].exposure.others[o].who = req.address}}
IsValidatorIn(e) ==
    \E k \in 1 .. Len(chain.erasStakersClipped[e]) :
        chain.erasStakersClipped[e][k].validatorId = req.address

\* the reward points of validator v in era e: 0 when it has no entry
ChainPoints(e, v) ==
    LET individual == chain.erasRewardPoints[e].individual
        at == {k \in 1 .. Len(individual) : individual[k].id = v}
    IN  IF at = {} THEN 0 ELSE individual[CHOOSE k \in at : TRUE].points

\* the result for era e computed from the chain alone, one era and one validator at a time
SequentialEraResult(e) ==
    LET exposure == mapStakers(e, chain.erasStakersClipped[e])
        nominated == deriveNominatedExposures(req.address, exposure)
    IN  deriveEraPayouts(req.address, req.unclaimedOnly,
            [deriveEraExposure |-> exposure,
             eraRewardPoints |-> chain.erasRewardPoints[e],
             erasValidatorRewardOption |-> chain.erasValidatorReward[e],
             exposuresWithCommission |->
                 [defined |-> nominated.defined,
                  list |-> [k \in 1 .. Len(nominated.list) |->
                               [validatorId |-> nominated.list[k].validatorId,
                                commission |->
                                    chain.erasValidatorPrefs[e][nominated.list[k].validatorId],
                                validatorLedger |->
                                    LedgerOnChain(nominated.list[k].validatorId)]]],
             eraIndex |-> e])

(***************************************************************************)
(* C1.  The call fails with BadRequest exactly when the resolved           *)
(* historyDepth is not 0 and depth > historyDepth or                       *)
(* era - (depth - 1) < currentEra - historyDepth; with historyDepth = 0 no *)
(* range is refused; a refused call has asked for no era's data.           *)
(***************************************************************************)
RangeViolated ==
    /\ historyDepth # 0
    /\ \/ req.depth > historyDepth
       \/ req.era - (req.depth - 1) < req.currentEra - historyDepth

C1_InvalidRangeExactly ==
    /\ pc # "start" => (error.name = "BadRequest" <=> RangeViolated)
    /\ error.name = "BadRequest" =>
           /\ pc = "failed"
           /\ queries.eraGeneral = 0 /\ queries.legacyPoints = 0
           /\ \A v \in Validators : queries.prefs[v] = 0
           /\ erasPayouts = << >>

\* a request refused for the era test alone: its depth is within historyDepth
C1_Witness ==
    /\ error.name = "BadRequest"
    /\ historyDepth # 0 /\ req.depth <= historyDepth
    /\ req.era - (req.depth - 1) < req.currentEra - historyDepth

(***************************************************************************)
(* C2.  A call that returns has one entry per era of [startEra, era], with *)
(* startEra = max(0, era - depth + 1), and its i-th entry is the result of *)
(* era startEra + i, whatever order the fetches completed in.              *)
(***************************************************************************)
C2_EraOrderedResults ==
    pc = "done" =>
        /\ startEra = RequestedStartEra
        /\ Len(erasPayouts) = req.era - RequestedStartEra + 1
        /\ \A i \in 1 .. Len(erasPayouts) :
               erasPayouts[i] = SequentialEraResult(EraAtPosition(i))

\* two eras with different results, returned after fetches completed out of order
C2_Witness ==
    /\ pc = "done"
    /\ outOfOrder
    /\ Len(erasPayouts) >= 2
    /\ erasPayouts[1].kind = "payouts" /\ erasPayouts[2].kind = "payouts"
    /\ erasPayouts[1].payouts # erasPayouts[2].payouts

(***************************************************************************)
(* C3.  In every era in which `address` is a validator, the validators     *)
(* fetched for `address` (its nominated set) contain `address` exactly     *)
(* once, also when `address` is in its own validator's `others`.           *)
(***************************************************************************)
C3_SelfNominatedExactlyOnce ==
    pc \in {"commissions", "done"} =>
        \A idx \in 1 .. Len(tasks) :
            IsValidatorIn(EraAtPosition(idx)) =>
                Cardinality({j \in 1 .. Len(tasks[idx]) :
                                tasks[idx][j].validatorId = req.address}) = 1

(***************************************************************************)
(* C4.  For every era of the range in which `address` backs no validator   *)
(* and is no validator, the era's result is the message "<address> has no  *)
(* nominations for the era E", whether or not the payout pool is there.    *)
(***************************************************************************)
HasNoNominations(e) == BackedValidators(e) = {} /\ ~IsValidatorIn(e)

C4_NoNominationsMessage ==
    pc = "done" =>
        \A i \in 1 .. Len(erasPayouts) :
            HasNoNominations(EraAtPosition(i)) =>
                erasPayouts[i] = NoNominationsMessage(req.address, EraAtPosition(i))

(***************************************************************************)
(* C5.  The claimed flag of a payout entry is decided by the first claim   *)
(* field the validator's ledger has.  As claimed: claimedRewards (the      *)
(* modern claimed-set) first, then legacyClaimedRewards (the legacy-named  *)
(* one).  As amended: legacyClaimedRewards first, then claimedRewards; a   *)
(* ledger with claimedRewards and lastReward but no legacyClaimedRewards   *)
(* has its flag decided by membership in claimedRewards.                   *)
(***************************************************************************)
Elements(vec) == {vec[k] : k \in 1 .. Len(vec)}

\* the entries of the returned breakdowns: <<position of the era, position in payouts>>
PayoutEntries ==
    {ik \in (1 .. Len(erasPayouts)) \X (1 .. Cardinality(Validators) + 1) :
        /\ erasPayouts[ik[1]].kind = "payouts"
        /\ ik[2] <= Len(erasPayouts[ik[1]].payouts)}
EntryAt(ik) == erasPayouts[ik[1]].payouts[ik[2]]
LedgerOfEntry(ik) == LedgerOnChain(EntryAt(ik).validatorId).ledger

ScalarOnly(ledger) ==
    /\ ~ledger.legacyClaimedRewards.present
    /\ ~ledger.claimedRewards.present
    /\ ledger.lastReward.present
ScalarIs(ledger, e) == ledger.lastReward.opt.isSome /\ ledger.lastReward.opt.value = e

C6_ScalarClaimedIffEqual ==
    pc = "done" =>
        /\ \A ik \in PayoutEntries :
               ScalarOnly(LedgerOfEntry(ik)) =>
                   EntryAt(ik).claimed = ScalarIs(LedgerOfEntry(ik), EraAtPosition(ik[1]))
        /\ \A i \in 1 .. Len(erasPayouts) : \A v \in BackedValidators(EraAtPosition(i)) :
               /\ erasPayouts[i].kind = "payouts"
               /\ ChainPoints(EraAtPosition(i), v) # 0
               /\ LedgerOnChain(v).defined /\ ScalarOnly(LedgerOnChain(v).ledger)
               /\ ~ScalarIs(LedgerOnChain(v).ledger, EraAtPosition(i))
               => \E k \in 1 .. Len(erasPayouts[i].payouts) :
                      /\ erasPayouts[i].payouts[k].validatorId = v
                      /\ ~erasPayouts[i].payouts[k].claimed

(***************************************************************************)
(* C7.  No payouts list holds a validator with zero or no reward points in *)
(* that era, a validator behind which `address` has no exposure, or a      *)
(* validator without ledger; and such validators fail no request: a call   *)
(* fails only for its range, on the legacy branch, or when a chain query   *)
(* rejects.                                                                *)
(***************************************************************************)
Nominated(e) == BackedValidators(e) \cup (IF IsValidatorIn(e) THEN {req.address} ELSE {})

C7_SkippedValidatorsAbsent ==
    /\ pc = "done" =>
           \A ik \in PayoutEntries :
               /\ ChainPoints(EraAtPosition(ik[1]), EntryAt(ik).validatorId) # 0
               /\ EntryAt(ik).validatorId \in Nominated(EraAtPosition(ik[1]))
               /\ LedgerOnChain(EntryAt(ik).validatorId).defined
    /\ pc = "failed" =>
           (RangeViolated \/ ~chain.hasErasRewardPoints \/ error.name = UpstreamError.name)

\* a breakdown that leaves out a backed validator without points and keeps another one
C7_Witness ==
    /\ pc = "done"
    /\ \E i \in 1 .. Len(erasPayouts) :
           /\ erasPayouts[i].kind = "payouts"
           /\ Len(erasPayouts[i].payouts) >= 1
           /\ \E v \in BackedValidators(EraAtPosition(i)) :
                  /\ ChainPoints(EraAtPosition(i), v) = 0
                  /\ \A k \in 1 .. Len(erasPayouts[i].payouts) :
                         erasPayouts[i].payouts[k].validatorId # v

(***************************************************************************)
(* C8.  With unclaimedOnly no returned entry is claimed, and an era with a *)
(* payout pool whose eligible validators are all claimed already is a      *)
(* breakdown with the era and its totals and no payouts; without           *)
(* unclaimedOnly the claimed entries are there, with claimed = TRUE.       *)
(***************************************************************************)
Eligible(e) ==
    {v \in Nominated(e) : ChainPoints(e, v) # 0 /\ LedgerOnChain(v).defined}

\* the claim record of v shows era e claimed: by its first claimed-set, or by lastReward = e
AlreadyClaimed(v, e) ==
    LET ledger == LedgerOnChain(v).ledger
    IN  IF ledger.legacyClaimedRewards.present
        THEN e \in Elements(ledger.legacyClaimedRewards.vec)
        ELSE IF ledger.claimedRewards.present
        THEN e \in Elements(ledger.claimedRewards.vec)
        ELSE ledger.lastReward.present /\ ScalarIs(ledger, e)

AllClaimedIn(e) ==
    /\ chain.erasValidatorReward[e].isSome
    /\ Eligible(e) # {}
    /\ \A v \in Eligible(e) : AlreadyClaimed(v, e)

C8_UnclaimedOnlyFilters ==
    pc = "done" =>
        \A i \in 1 .. Len(erasPayouts) :
            /\ req.unclaimedOnly =>
                   \A ik \in PayoutEntries : ~EntryAt(ik).claimed
            /\ req.unclaimedOnly /\ AllClaimedIn(EraAtPosition(i)) =>
                   erasPayouts[i] =
                       [kind |-> "payouts", era |-> EraAtPosition(i),
                        totalEraRewardPoints |-> chain.erasRewardPoints[EraAtPosition(i)].total,
                        totalEraPayout |-> chain.erasValidatorReward[EraAtPosition(i)].value,
                        payouts |-> << >>]
            /\ ~req.unclaimedOnly /\ chain.erasValidatorReward[EraAtPosition(i)].isSome =>
                   \A v \in Eligible(EraAtPosition(i)) :
                       AlreadyClaimed(v, EraAtPosition(i)) =>
                           \E k \in 1 .. Len(erasPayouts[i].payouts) :
                               /\ erasPayouts[i].payouts[k].validatorId = v
                               /\ erasPayouts[i].payouts[k].claimed

\* unclaimedOnly, and an era whose only eligible validator is claimed: totals, no payouts
C8_Witness ==
    /\ pc = "done"
    /\ req.unclaimedOnly
    /\ \E i \in 1 .. Len(erasPayouts) :
           /\ AllClaimedIn(EraAtPosition(i))
           /\ erasPayouts[i].kind = "payouts"
           /\ erasPayouts[i].payouts = << >>
           /\ erasPayouts[i].totalEraPayout = 1000 + EraAtPosition(i)

(***************************************************************************)
(* C9.  A second call with the same arguments against the same block ends  *)
(* as the first did, with the same erasPayouts, whatever order the fetches *)
(* of either call completed in (calls none of whose chain queries          *)
(* rejected: the chain answers every call alike).                          *)
(***************************************************************************)
C9_SameResultEveryCall ==
    pc \in {"done", "failed"} /\ error.name # UpstreamError.name =>
        \A k \in 1 .. Len(previous) :
            previous[k].error.name # UpstreamError.name =>
                /\ previous[k].pc = pc
                /\ previous[k].erasPayouts = erasPayouts
                /\ previous[k].error = error

\* two calls whose fetches completed in different orders, both having written the cache
C9_Witness ==
    /\ pc = "done"
    /\ Len(previous) >= 1
    /\ previous[1].outOfOrder # outOfOrder
    /\ Len(erasPayouts) >= 2
    /\ \E ik \in PayoutEntries : TRUE
    /\ \E v \in Validators : cacheWrites[v] >= 1

(***************************************************************************)
(* C10.  Within one call, for one validator at most one                    *)
(* fetchCommissionAndLedger call looks up the controller and the ledger    *)
(* and writes the cache entry; the calls of the other eras find it cached. *)
(***************************************************************************)
C10_OneLookupPerValidator ==
    \A v \in Validators :
        /\ queries.bonded[v] <= 1
        /\ queries.ledger[v] <= 1
        /\ cacheWrites[v] <= 1

(***************************************************************************)
(* C11.  Whenever a chain query of the call rejects (in an era's general   *)
(* fetch or in a validator's commission and ledger fetch), the call ends   *)
(* in an error wrapped with the address, returns no erasPayouts, and no    *)
(* query is sent a second time.                                            *)
(***************************************************************************)
QueryRejected == error.name = UpstreamError.name

\* every query was sent once: one tuple per era, one set of queries per call in flight
NothingRetried ==
    /\ queries.eraGeneral <= Len(allDeriveQuerys)
    /\ queries.legacyPoints <= req.era - RequestedStartEra + 1
    /\ \A v \in Validators :
           /\ queries.prefs[v] <= CountTasks(tasks, v, {"prefs", "prefsBonded", "ledger",
                                                           "done", "rejected"})
           /\ queries.bonded[v] <= queries.prefs[v]
           /\ queries.ledger[v] <= queries.bonded[v]

C11_FailFastWrapped ==
    QueryRejected =>
        /\ pc = "failed"
        /\ error.wrapped /\ error.address = req.address
        /\ erasPayouts = << >>
        /\ NothingRetried

====
